---- MODULE Spec2Model ----
(***************************************************************************)
(* Model of the `signatures` crate: the keypair holder (Signature), the    *)
(* Curve trait's default methods (generate_secret_key,                     *)
(* calculate_public_key) and the affine point arithmetic (add_two_points,  *)
(* mod_inv, mod_sub).                                                      *)
(*                                                                         *)
(* The crate is a library of synchronous functions.  A behaviour of the    *)
(* model is one caller invoking one entry point (op) on inputs drawn from  *)
(* bounded sets in Init; the actions execute the entry point's code.       *)
(* BigUint values are naturals; the operations that would panic on a       *)
(* BigUint (subtraction below zero, a zero modulus) are kept out of reach  *)
(* by drawing moduli >= 2 only.                                            *)
(***************************************************************************)
EXTENDS Integers, Sequences, FiniteSets

VARIABLES
    op,          \* entry point the caller invokes
    pc,          \* position in it: "call", "loop" or "ret"
    curve,       \* the Curve implementation bound to the call
    secret,      \* Signature.secret
    public_key,  \* Signature.public_key
    calls,       \* number of generate_keypair calls that have returned
    first,       \* add_two_points: first operand
    second,      \* add_two_points: second operand
    secret_key,  \* calculate_public_key: the scalar
    i,           \* calculate_public_key: loop index
    result,      \* calculate_public_key: accumulator
    current,     \* calculate_public_key: current multiple of the generator
    value,       \* mod_inv: value
    modulus,     \* mod_inv: modulus
    ret,         \* point returned by add_two_points / calculate_public_key
    inverse,     \* number returned by mod_inv
    denoms       \* values handed to mod_inv by the add_two_points calls of the last step

vars == <<op, pc, curve, secret, public_key, calls, first, second, secret_key,
          i, result, current, value, modulus, ret, inverse, denoms>>

-----------------------------------------------------------------------------
(* Bounds of the model *)

\* generate_keypair calls made on one Signature
MaxCalls == 2
\* largest public_key the caller constructs the Signature with
MaxPublicKey == 3
\* largest scalar handed to calculate_public_key
MaxScalar == 40
\* operand coordinates range over 0 .. p - 1 + MaxExcess (unreduced when >= p)
MaxExcess == 1

-----------------------------------------------------------------------------
(* CurvePoint *)

Infinity == [kind |-> "Infinity"]

Affine(x, y) == [kind |-> "Affine", x |-> x, y |-> y]

is_infinity(pt) == pt.kind = "Infinity"

-----------------------------------------------------------------------------
(* BigUint operations of num-bigint used by the crate *)

\* base.modpow(exp, m) = base^exp mod m  (m >= 1)
RECURSIVE modpow(_, _, _)
modpow(base, exp, m) ==
    IF exp = 0 THEN 1 % m
    ELSE IF exp % 2 = 1 THEN ((base % m) * modpow(base, exp - 1, m)) % m
    ELSE LET h == modpow(base, exp \div 2, m) IN (h * h) % m

\* n.bits(): number of bits needed to represent n (0 for n = 0)
RECURSIVE bits(_)
bits(n) == IF n = 0 THEN 0 ELSE 1 + bits(n \div 2)

\* (n >> j) & 1 == 1
RECURSIVE shr(_, _)
shr(n, j) == IF j = 0 THEN n ELSE shr(n \div 2, j - 1)

bit_is_set(n, j) == shr(n, j) % 2 = 1

\* rng.gen_biguint_range(lbound, ubound): any value of lbound .. ubound - 1
\* (the set is empty when lbound >= ubound, where the library panics)
gen_biguint_range(lbound, ubound) == {s \in lbound .. ubound - 1 : TRUE}

-----------------------------------------------------------------------------
(* Modular Arithmetic Helpers: arithmetic.rs *)

mod_inv_wrong_exponent(v, m) == modpow(v, m - 1, m)

mod_inv(v, m) == modpow(v, m - 2, m)

mod_sub_reversed(a, b, p) == ((b % p) + p - (a % p)) % p

mod_sub(a, b, p) == ((a % p) + p - (b % p)) % p

-----------------------------------------------------------------------------
(* Point Addition Engine: arithmetic.rs, add_two_points *)

\* Steps 4-6 for affine operands that passed step 3: the slope, then x3, y3.
\* `doubling` selects the branch of the `if x1 == x2 && y1 == y2`.
\* Yields the returned point and the value handed to mod_inv.
slope_and_sum(x1, y1, x2, y2, doubling, c) ==
    LET p == c.p
        x1_sq == modpow(x1, 2, p)
        numerator == IF doubling THEN (3 * x1_sq + c.a) % p ELSE mod_sub(y2, y1, p)
        denominator == IF doubling THEN (2 * y1) % p ELSE mod_sub(x2, x1, p)
        denom_inv == mod_inv(denominator, p)
        lambda == (numerator * denom_inv) % p
        lambda_sq == modpow(lambda, 2, p)
        x3 == mod_sub(mod_sub(lambda_sq, x1, p), x2, p)
        t1 == mod_sub(x1, x3, p)
        t2 == (lambda * t1) % p
        y3 == mod_sub(t2, y1, p)
    IN  [ret |-> Affine(x3, y3), denoms |-> <<denominator>>]

\* add_two_points with one of its degenerate-case checks broken:
\*   "identity_swapped"  step 1 returns the operand that is Infinity
\*   "no_step3"          the P + (-P) check is missing
\*   "no_y_zero_check"   the doubling branch does not test y1 == 0
\*   "zero_check_on_x"   the doubling branch tests x1 == 0 instead of y1 == 0
add_two_points_faulty(P, Q, c, fault) ==
    IF is_infinity(P) THEN
        [ret |-> IF fault = "identity_swapped" THEN P ELSE Q, denoms |-> <<>>]
    ELSE IF is_infinity(Q) THEN
        [ret |-> IF fault = "identity_swapped" THEN Q ELSE P, denoms |-> <<>>]
    ELSE
        LET x1 == P.x
            y1 == P.y
            x2 == Q.x
            y2 == Q.y
            doubling == x1 = x2 /\ y1 = y2
            vertical == CASE fault = "no_y_zero_check" -> FALSE
                          [] fault = "zero_check_on_x" -> x1 = 0
                          [] OTHER -> y1 = 0
        IN  IF fault # "no_step3" /\ x1 = x2 /\ y1 # y2 THEN
                [ret |-> Infinity, denoms |-> <<>>]
            ELSE IF doubling /\ vertical THEN
                [ret |-> Infinity, denoms |-> <<>>]
            ELSE slope_and_sum(x1, y1, x2, y2, doubling, c)

add_two_points_identity_swapped(P, Q, c) ==
    add_two_points_faulty(P, Q, c, "identity_swapped")

add_two_points_no_step3(P, Q, c) == add_two_points_faulty(P, Q, c, "no_step3")

add_two_points_no_y_zero_check(P, Q, c) ==
    add_two_points_faulty(P, Q, c, "no_y_zero_check")

add_two_points_zero_check_on_x(P, Q, c) ==
    add_two_points_faulty(P, Q, c, "zero_check_on_x")

\* One execution of add_two_points(first = P, second = Q, curve = c): the point
\* it returns (ret) and the values it handed to mod_inv on the way (denoms).
add_two_points_run(P, Q, c) ==
    \* 1) identity cases
    IF is_infinity(P) THEN [ret |-> Q, denoms |-> <<>>]
    ELSE IF is_infinity(Q) THEN [ret |-> P, denoms |-> <<>>]
    ELSE
        \* 2) affine coordinates
        LET x1 == P.x
            y1 == P.y
            x2 == Q.x
            y2 == Q.y
        IN  \* 3) P + (-P) = Infinity
            IF x1 = x2 /\ y1 # y2 THEN [ret |-> Infinity, denoms |-> <<>>]
            \* 4) doubling with y == 0
            ELSE IF x1 = x2 /\ y1 = y2 /\ y1 = 0 THEN
                [ret |-> Infinity, denoms |-> <<>>]
            \* 4)-6) slope and result coordinates
            ELSE slope_and_sum(x1, y1, x2, y2, x1 = x2 /\ y1 = y2, c)

add_two_points(P, Q, c) == add_two_points_run(P, Q, c).ret

-----------------------------------------------------------------------------
(* Curve capability: curve.rs *)

generate_secret_key_from_zero(c) == gen_biguint_range(0, c.order)

\* the values generate_secret_key can return, over all draws of the rng
generate_secret_key(c) == gen_biguint_range(1, c.order)

identity(c) == Infinity

generator_point(c) == c.G

\* One iteration of the double-and-add loop, doubling before the conditional add.
calculate_public_key_step_double_first(c, k, j, res, cur) ==
    LET dbl == add_two_points_run(cur, cur, c)
        sum == add_two_points_run(res, dbl.ret, c)
    IN  IF bit_is_set(k, j)
        THEN [result |-> sum.ret, current |-> dbl.ret, denoms |-> dbl.denoms \o sum.denoms]
        ELSE [result |-> res, current |-> dbl.ret, denoms |-> dbl.denoms]

\* One iteration of the loop `for i in 0..secret_key.bits()` at index j, from
\* result = res and current = cur: the new result and current, and the values
\* the iteration's add_two_points calls handed to mod_inv.
calculate_public_key_step(c, k, j, res, cur) ==
    LET sum == add_two_points_run(res, cur, c)
        dbl == add_two_points_run(cur, cur, c)
    IN  IF bit_is_set(k, j)
        THEN [result |-> sum.ret, current |-> dbl.ret, denoms |-> sum.denoms \o dbl.denoms]
        ELSE [result |-> res, current |-> dbl.ret, denoms |-> dbl.denoms]

\* calculate_public_key(secret_key = k) as a function of its inputs: the loop
\* run from index j to secret_key.bits().
RECURSIVE calculate_public_key_from(_, _, _, _, _)
calculate_public_key_from(c, k, j, res, cur) ==
    IF j >= bits(k) THEN res
    ELSE LET s == calculate_public_key_step(c, k, j, res, cur)
         IN  calculate_public_key_from(c, k, j + 1, s.result, s.current)

calculate_public_key(c, k) ==
    calculate_public_key_from(c, k, 0, identity(c), generator_point(c))

-----------------------------------------------------------------------------
(* Curve implementations the calls are made on *)

\* curve.rs tests: DummyCurve
DummyCurve == [p |-> 7, a |-> 1, b |-> 6, G |-> Affine(2, 3), order |-> 13]

\* arithmetic.rs tests: TestCurve (its generator_point and order are unreachable!())
TestCurve == [p |-> 17, a |-> 2, b |-> 2]

\* TestCurve's parameters with the test point (5, 1) as generator; the group
\* it generates has 19 elements
TestCurveWithGenerator ==
    [p |-> 17, a |-> 2, b |-> 2, G |-> Affine(5, 1), order |-> 19]

\* y^2 = x^3 + x over F_5 with the 2-torsion point (0, 0) as generator
TwoTorsionCurve == [p |-> 5, a |-> 1, b |-> 0, G |-> Affine(0, 0), order |-> 2]

\* implementations of the whole trait
KeyCurves == {DummyCurve, TestCurveWithGenerator, TwoTorsionCurve}

\* small prime moduli whose curves are enumerated with every a and b
GridPrimes == {2, 3, 5}

\* implementations the arithmetic is called on (it reads prime_modulus and a)
ArithCurves ==
    {[p |-> p, a |-> a, b |-> b] : p \in {7}, a \in {1}, b \in {6}}
    \cup {TestCurve}
    \cup UNION {{[p |-> p, a |-> a, b |-> b] : a \in 0 .. p - 1, b \in 0 .. p - 1} :
                p \in GridPrimes}

\* prime moduli mod_inv is called with
Primes == {2, 3, 5, 7, 11, 13, 17}

\* operands of add_two_points on curve c: Infinity and every affine pair with
\* coordinates up to p - 1 + MaxExcess
Points(c) ==
    {Infinity} \cup {Affine(x, y) : x \in 0 .. c.p - 1 + MaxExcess,
                                    y \in 0 .. c.p - 1 + MaxExcess}

-----------------------------------------------------------------------------
(* Initial states: the caller's inputs, before the entry point runs *)

\* a Signature the caller constructed (pub fields), generate_keypair not yet called
InitSignature ==
    /\ op = "generate_keypair"
    /\ pc = "call"
    /\ curve \in KeyCurves
    /\ secret \in 0 .. curve.order - 1
    /\ public_key \in 0 .. MaxPublicKey
    /\ calls = 0
    /\ first = Infinity /\ second = Infinity
    /\ secret_key = 0 /\ i = 0 /\ result = Infinity /\ current = Infinity
    /\ value = 0 /\ modulus = 0
    /\ ret = Infinity /\ inverse = 0 /\ denoms = <<>>

\* add_two_points(first, second, &curve) about to run
InitAdd ==
    /\ op = "add_two_points"
    /\ pc = "call"
    /\ curve \in ArithCurves
    /\ first \in Points(curve)
    /\ second \in Points(curve)
    /\ secret = 0 /\ public_key = 0 /\ calls = 0
    /\ secret_key = 0 /\ i = 0 /\ result = Infinity /\ current = Infinity
    /\ value = 0 /\ modulus = 0
    /\ ret = Infinity /\ inverse = 0 /\ denoms = <<>>

\* curve.calculate_public_key(secret_key) at the head of its loop
InitScalarMul ==
    /\ op = "calculate_public_key"
    /\ pc = "loop"
    /\ curve \in KeyCurves
    /\ secret_key \in 0 .. MaxScalar
    /\ i = 0
    /\ result = identity(curve)
    /\ current = generator_point(curve)
    /\ secret = 0 /\ public_key = 0 /\ calls = 0
    /\ first = Infinity /\ second = Infinity
    /\ value = 0 /\ modulus = 0
    /\ ret = Infinity /\ inverse = 0 /\ denoms = <<>>

\* mod_inv(value, &modulus) about to run
InitModInv ==
    /\ op = "mod_inv"
    /\ pc = "call"
    /\ modulus \in Primes
    /\ value \in 0 .. modulus - 1 + MaxExcess
    /\ curve = TestCurve
    /\ secret = 0 /\ public_key = 0 /\ calls = 0
    /\ first = Infinity /\ second = Infinity
    /\ secret_key = 0 /\ i = 0 /\ result = Infinity /\ current = Infinity
    /\ ret = Infinity /\ inverse = 0 /\ denoms = <<>>

Init == InitSignature \/ InitAdd \/ InitScalarMul \/ InitModInv

-----------------------------------------------------------------------------
(* Actions *)

\* Signature::generate_keypair
generate_keypair ==
    /\ op = "generate_keypair"
    /\ calls < MaxCalls
    /\ \E s \in generate_secret_key(curve) : secret' = s
    /\ calls' = calls + 1
    /\ pc' = "ret"
    /\ UNCHANGED <<op, curve, public_key, first, second, secret_key, i, result,
                   current, value, modulus, ret, inverse, denoms>>

\* add_two_points, from call to return
add_two_points_call ==
    /\ op = "add_two_points"
    /\ pc = "call"
    /\ LET r == add_two_points_run(first, second, curve)
       IN  ret' = r.ret /\ denoms' = r.denoms
    /\ pc' = "ret"
    /\ UNCHANGED <<op, curve, secret, public_key, calls, first, second, secret_key,
                   i, result, current, value, modulus, inverse>>

\* calculate_public_key: one iteration of the loop
calculate_public_key_iter ==
    /\ op = "calculate_public_key"
    /\ pc = "loop"
    /\ i < bits(secret_key)
    /\ LET s == calculate_public_key_step(curve, secret_key, i, result, current)
       IN  result' = s.result /\ current' = s.current /\ denoms' = s.denoms
    /\ i' = i + 1
    /\ UNCHANGED <<op, pc, curve, secret, public_key, calls, first, second,
                   secret_key, value, modulus, ret, inverse>>

\* calculate_public_key: the loop is over, `result` is returned
calculate_public_key_return ==
    /\ op = "calculate_public_key"
    /\ pc = "loop"
    /\ i >= bits(secret_key)
    /\ ret' = result
    /\ pc' = "ret"
    /\ UNCHANGED <<op, curve, secret, public_key, calls, first, second, secret_key,
                   i, result, current, value, modulus, inverse, denoms>>

\* mod_inv, from call to return
mod_inv_call ==
    /\ op = "mod_inv"
    /\ pc = "call"
    /\ inverse' = mod_inv(value, modulus)
    /\ pc' = "ret"
    /\ UNCHANGED <<op, curve, secret, public_key, calls, first, second, secret_key,
                   i, result, current, value, modulus, ret, denoms>>

Next ==
    \/ generate_keypair
    \/ add_two_points_call
    \/ calculate_public_key_iter
    \/ calculate_public_key_return
    \/ mod_inv_call

Spec == Init /\ [][Next]_vars

-----------------------------------------------------------------------------
(* Vocabulary of the properties *)

IsPrime(n) == n >= 2 /\ \A d \in 2 .. n - 1 : n % d # 0

IsAffine(pt) == pt.kind = "Affine"

\* both coordinates are field elements, i.e. in [0, p-1]
Reduced(pt, p) == IsAffine(pt) => (pt.x < p /\ pt.y < p)

\* Infinity, or a reduced affine point satisfying y^2 = x^3 + a*x + b (mod p)
OnCurve(pt, c) ==
    IsAffine(pt) =>
        /\ pt.x < c.p /\ pt.y < c.p
        /\ (pt.y * pt.y) % c.p = (pt.x * pt.x * pt.x + c.a * pt.x + c.b) % c.p

\* 4a^3 + 27b^2 # 0 (mod p)
NonSingular(c) == (4 * c.a * c.a * c.a + 27 * c.b * c.b) % c.p # 0

\* k-fold repeated add_two_points of the generator with itself
RECURSIVE RepeatedAdd(_, _)
RepeatedAdd(c, k) ==
    IF k = 0 THEN Infinity
    ELSE add_two_points(RepeatedAdd(c, k - 1), generator_point(c), c)

\* a point written as one number: 0 for Infinity, 1 + x*p + y for (x, y)
point_as_biguint(pt, c) == IF is_infinity(pt) THEN 0 ELSE 1 + pt.x * c.p + pt.y

Returned(entry) == op = entry /\ pc = "ret"

-----------------------------------------------------------------------------
(* Keypair holder *)

\* C1: once a secret is present (non-zero), a generate_keypair call leaves the
\* secret field unchanged: an existing secret is never overwritten.
C1_ExistingSecretKept ==
    [][(op = "generate_keypair" /\ secret # 0) => secret' = secret]_vars

\* C2: after one or more generate_keypair calls the public_key field holds
\* secret * G, the point calculate_public_key(secret) returns (written as the
\* number point_as_biguint gives, the field being a BigUint).
C2_PublicKeyIsSecretTimesG ==
    (op = "generate_keypair" /\ calls > 0) =>
        public_key = point_as_biguint(calculate_public_key(curve, secret), curve)

\* C3: on a curve of order n >= 2 every secret generate_secret_key hands to
\* generate_keypair is an integer s with 1 <= s < n.
C3_SecretKeyInRange ==
    (op = "generate_keypair" /\ calls > 0 /\ curve.order >= 2) =>
        (1 <= secret /\ secret < curve.order)

C3_Witness ==
    /\ op = "generate_keypair" /\ calls > 0
    /\ curve = DummyCurve
    /\ secret = curve.order - 1

-----------------------------------------------------------------------------
(* Scalar multiplication *)

\* C4: on a curve whose generator lies on it, calculate_public_key(k) leaves
\* its loop after exactly bits(k) iterations and returns the k-fold repeated
\* add_two_points of G with itself (Infinity for k = 0).
C4_DoubleAndAddIsRepeatedAdd ==
    (op = "calculate_public_key" /\ OnCurve(generator_point(curve), curve)) =>
        /\ i <= bits(secret_key)
        /\ pc = "ret" => /\ i = bits(secret_key)
                         /\ ret = RepeatedAdd(curve, secret_key)

C4_Witness ==
    /\ Returned("calculate_public_key")
    /\ curve = DummyCurve
    /\ secret_key = 3
    /\ i = 2
    /\ IsAffine(ret)
    /\ ret = add_two_points(add_two_points(curve.G, curve.G, curve), curve.G, curve)

-----------------------------------------------------------------------------
(* Point addition *)

\* first = (x, y) with x in [0, p-1], y in [1, p-1], second = (x, (p - y) mod p)
InversePair ==
    /\ IsAffine(first) /\ IsAffine(second)
    /\ first.x < curve.p
    /\ 1 <= first.y /\ first.y < curve.p
    /\ second = Affine(first.x, (curve.p - first.y) % curve.p)

\* C5 as stated: for every prime modulus p, add_two_points(P, (x, (p-y) mod p))
\* returns Infinity for P = (x, y), x in [0, p-1], y in [1, p-1].
C5_InverseLawEveryPrime ==
    (Returned("add_two_points") /\ IsPrime(curve.p) /\ InversePair) =>
        ret = Infinity

\* C5 amended: the inverse law holds for every odd prime modulus p.
C5_InverseLawOddPrime ==
    (Returned("add_two_points") /\ IsPrime(curve.p) /\ curve.p # 2 /\ InversePair) =>
        ret = Infinity

C5_Witness ==
    /\ Returned("add_two_points")
    /\ curve = TestCurve
    /\ first = Affine(3, 5) /\ second = Affine(3, 12)
    /\ InversePair
    /\ ret = Infinity

\* C6: add_two_points(P, O) = P and add_two_points(O, P) = P with P's
\* coordinates as given (on or off the curve, reduced or not), and
\* add_two_points(O, O) = O.
C6_IdentityLaw ==
    Returned("add_two_points") =>
        /\ is_infinity(second) => ret = first
        /\ is_infinity(first) => ret = second

\* P is off the curve and unreduced, and came back unchanged from P + O
C6_Witness ==
    /\ Returned("add_two_points")
    /\ curve = TestCurve
    /\ first = Affine(17, 1) /\ second = Infinity
    /\ ~OnCurve(first, curve)
    /\ ret = Affine(17, 1)

\* C7: for P = (x, 0), add_two_points(P, P) returns Infinity and hands
\* nothing to mod_inv (no slope is computed).
C7_DoublingAtZero ==
    (Returned("add_two_points") /\ IsAffine(first) /\ first.y = 0 /\ second = first) =>
        (ret = Infinity /\ denoms = <<>>)

C7_Witness ==
    /\ Returned("add_two_points")
    /\ curve = TestCurve
    /\ first = Affine(5, 0) /\ second = Affine(5, 0)
    /\ ret = Infinity /\ denoms = <<>>

\* C8: for every prime p and v in [1, p-1], (mod_inv(v, p) * v) mod p = 1.
C8_ModInvCorrect ==
    (Returned("mod_inv") /\ IsPrime(modulus) /\ 1 <= value /\ value <= modulus - 1) =>
        (inverse * value) % modulus = 1

C8_Witness ==
    /\ Returned("mod_inv")
    /\ modulus = 17 /\ value = 3
    /\ inverse = 6

\* both operands affine with coordinates in [0, p-1]
ReducedAffineOperands ==
    /\ IsAffine(first) /\ IsAffine(second)
    /\ Reduced(first, curve.p) /\ Reduced(second, curve.p)

\* no value handed to mod_inv was 0 modulo p
DenominatorsNonZero == \A n \in 1 .. Len(denoms) : denoms[n] % curve.p # 0

\* C9 as stated: for every prime modulus p and affine operands with
\* coordinates in [0, p-1], the denominator handed to mod_inv is non-zero mod p.
C9_NonZeroDenominatorEveryPrime ==
    (Returned("add_two_points") /\ IsPrime(curve.p) /\ ReducedAffineOperands) =>
        DenominatorsNonZero

\* C9 amended: the same for every odd prime modulus p; the add_two_points
\* calls of calculate_public_key's loop are covered as well.
C9_NonZeroDenominatorOddPrime ==
    /\ (Returned("add_two_points") /\ IsPrime(curve.p) /\ curve.p # 2
            /\ ReducedAffineOperands) => DenominatorsNonZero
    /\ (op = "calculate_public_key" /\ IsPrime(curve.p) /\ curve.p # 2) =>
            DenominatorsNonZero

\* a doubling reached mod_inv with a non-zero denominator
C9_Witness ==
    /\ Returned("add_two_points")
    /\ curve = TestCurve
    /\ first = Affine(5, 1) /\ second = Affine(5, 1)
    /\ denoms = <<2>>
    /\ IsAffine(ret)

\* C10: on a non-singular curve with p > 3 (among them the toy curves p = 17,
\* a = 2, b = 2 and p = 7, a = 1, b = 6)
\* add_two_points of two points that are on the curve is on the curve, and so
\* are result, current and the returned point of calculate_public_key when
\* the generator is.
C10_Closure ==
    /\ (Returned("add_two_points") /\ curve.p > 3 /\ NonSingular(curve)
            /\ OnCurve(first, curve) /\ OnCurve(second, curve)) => OnCurve(ret, curve)
    /\ (op = "calculate_public_key" /\ OnCurve(generator_point(curve), curve)) =>
            /\ OnCurve(result, curve)
            /\ OnCurve(current, curve)
            /\ OnCurve(ret, curve)

\* the regression vector P = (5, 1), Q = (6, 3) on p = 17, a = 2, b = 2
C10_Witness ==
    /\ Returned("add_two_points")
    /\ curve = TestCurve
    /\ first = Affine(5, 1) /\ second = Affine(6, 3)
    /\ OnCurve(first, curve) /\ OnCurve(second, curve)
    /\ IsAffine(ret) /\ OnCurve(ret, curve)

====
